---- MODULE Spec2Model ----
(***************************************************************************)
(* Theme engine of blogr: the theme catalog (blogr-themes/src/lib.rs) and  *)
(* the `blogr theme` commands (blogr-cli/src/commands/theme.rs).           *)
(*                                                                         *)
(* A Rust String whose letter case matters (a theme name, a command-line   *)
(* argument) is a sequence of one-character strings, so that to_lowercase  *)
(* is computed character by character.  Option keys, which the code only   *)
(* hashes and compares exactly, are plain strings.                         *)
(***************************************************************************)
EXTENDS Integers, Sequences, FiniteSets, TLC

VARIABLES
    project,      \* what Project::find_project() finds: "None" or "Some"
    config,       \* the theme section of blogr.toml: [name, config]
    before,       \* blogr.toml's theme section when the last command started
    last,         \* the last command: its argument, locals and outcome
    templates,    \* the Vec of the ThemeTemplates value under construction
    calls,        \* the (name, source) arguments of new / with_template so far
    iterated      \* what into_iter() yielded for the last consumed bundle

vars == <<project, config, before, last, templates, calls, iterated>>

-----------------------------------------------------------------------------
(* Bounds *)

\* with_template calls per bundle
MaxTemplates == 3

-----------------------------------------------------------------------------
(* Strings and letter case *)

UpperCase == <<"A","B","C","D","E","F","G","H","I","J","K","L","M",
               "N","O","P","Q","R","S","T","U","V","W","X","Y","Z">>
LowerCase == <<"a","b","c","d","e","f","g","h","i","j","k","l","m",
               "n","o","p","q","r","s","t","u","v","w","x","y","z">>

Letters == {UpperCase[i] : i \in DOMAIN UpperCase} \cup
           {LowerCase[i] : i \in DOMAIN LowerCase}

\* char::to_lowercase and char::to_uppercase on the letters
lower_of == [c \in Letters |->
                IF \E i \in DOMAIN UpperCase : UpperCase[i] = c
                THEN LowerCase[CHOOSE i \in DOMAIN UpperCase : UpperCase[i] = c]
                ELSE c]
upper_of == [c \in Letters |->
                IF \E i \in DOMAIN LowerCase : LowerCase[i] = c
                THEN UpperCase[CHOOSE i \in DOMAIN LowerCase : LowerCase[i] = c]
                ELSE c]

\* characters without case (a space, a hyphen) are left as they are
char_to_lowercase(c) == IF c \in Letters THEN lower_of[c] ELSE c
char_to_uppercase(c) == IF c \in Letters THEN upper_of[c] ELSE c

\* str::to_lowercase
to_lowercase(s) == [i \in 1..Len(s) |-> char_to_lowercase(s[i])]

\* str::to_uppercase (used only to build command-line arguments)
to_uppercase(s) == [i \in 1..Len(s) |-> char_to_uppercase(s[i])]

-----------------------------------------------------------------------------
(* toml::Value, a tagged union *)

String(s)  == [type |-> "String",  s |-> s,  i |-> 0, b |-> FALSE]
Integer(n) == [type |-> "Integer", s |-> "", i |-> n, b |-> FALSE]
Boolean(x) == [type |-> "Boolean", s |-> "", i |-> 0, b |-> x]

\* ConfigOption { value, description }
ConfigOption(v, d) == [value |-> v, description |-> d]

\* A HashMap with no entries
EmptyMap == [k \in {} |-> String("")]

-----------------------------------------------------------------------------
(* The built-in themes: Theme::info() of each, name and config_schema.     *)
(* version, author and description are display text only.                  *)

MinimalRetroTheme ==
    [name |-> <<"m","i","n","i","m","a","l","-","r","e","t","r","o">>,
     config_schema |->
        [k \in {"accent_color", "font_size"} |->
            IF k = "accent_color"
            THEN ConfigOption(String("red"), "Accent color")
            ELSE ConfigOption(Integer(14), "Base font size")]]

ObsidianTheme ==
    [name |-> <<"O","b","s","i","d","i","a","n">>,
     config_schema |->
        [k \in {"accent_color", "show_sidebar"} |->
            IF k = "accent_color"
            THEN ConfigOption(String("purple"), "Accent color")
            ELSE ConfigOption(Boolean(TRUE), "Show the sidebar")]]

TerminalCandyTheme ==
    [name |-> <<"T","e","r","m","i","n","a","l"," ","C","a","n","d","y">>,
     config_schema |->
        [k \in {"font_size"} |-> ConfigOption(Integer(16), "Base font size")]]

DarkMinimalTheme ==
    [name |-> <<"D","a","r","k"," ","M","i","n","i","m","a","l">>,
     config_schema |-> EmptyMap]

MusashiTheme ==
    [name |-> <<"M","u","s","a","s","h","i">>,
     config_schema |->
        [k \in {"show_sidebar"} |->
            ConfigOption(Boolean(FALSE), "Show the sidebar")]]

SlatePortfolioTheme ==
    [name |-> <<"S","l","a","t","e"," ","P","o","r","t","f","o","l","i","o">>,
     config_schema |->
        [k \in {"accent_color", "font_size", "show_sidebar"} |->
            CASE k = "accent_color" -> ConfigOption(String("purple"), "Accent color")
              [] k = "font_size"    -> ConfigOption(Integer(14), "Base font size")
              [] OTHER              -> ConfigOption(Boolean(TRUE), "Show the sidebar")]]

TypewriterTheme ==
    [name |-> <<"T","y","p","e","w","r","i","t","e","r">>,
     config_schema |->
        [k \in {"font_size"} |-> ConfigOption(Integer(16), "Base font size")]]

BrutjaTheme ==
    [name |-> <<"B","r","u","t","j","a">>,
     config_schema |->
        [k \in {"accent_color"} |-> ConfigOption(String("red"), "Accent color")]]

-----------------------------------------------------------------------------
(* The catalog *)

\* a catalog in which one theme was registered twice
get_all_themes_duplicated ==
    <<MinimalRetroTheme, ObsidianTheme, TerminalCandyTheme, DarkMinimalTheme,
      MusashiTheme, ObsidianTheme, TypewriterTheme, BrutjaTheme>>

get_all_themes ==
    <<MinimalRetroTheme, ObsidianTheme, TerminalCandyTheme, DarkMinimalTheme,
      MusashiTheme, SlatePortfolioTheme, TypewriterTheme, BrutjaTheme>>

\* Iterator::find with the closure of get_theme: the index of the first theme
\* at or after i whose lower-cased name is `lowered`, 0 (None) when none is
RECURSIVE find_from(_, _, _)
find_from(themes, i, lowered) ==
    IF i > Len(themes) THEN 0
    ELSE IF to_lowercase(themes[i].name) = lowered THEN i
    ELSE find_from(themes, i + 1, lowered)

\* get_theme comparing the names as they are written
get_theme_exact(name) ==
    LET hits == {i \in DOMAIN get_all_themes : get_all_themes[i].name = name}
    IN  IF hits = {} THEN 0 ELSE CHOOSE i \in hits : \A j \in hits : i <= j

get_theme(name) == find_from(get_all_themes, 1, to_lowercase(name))

-----------------------------------------------------------------------------
(* blogr theme set / blogr theme list *)

\* The orders in which a HashMap with key set S can be iterated
Orders(S) ==
    {o \in [1..Cardinality(S) -> S] :
        \A i, j \in 1..Cardinality(S) : i # j => o[i] # o[j]}

\* an entry step that writes the default over whatever is stored
entry_overwrite(cfg, option_name, option) ==
    [k \in DOMAIN cfg \cup {option_name} |->
        IF k = option_name THEN option.value ELSE cfg[k]]

\* an entry step that never inserts
entry_skip(cfg, option_name, option) == cfg

\* an entry step that also drops a stored value equal to the default
entry_prune_default(cfg, option_name, option) ==
    IF option_name \notin DOMAIN cfg
    THEN [k \in DOMAIN cfg \cup {option_name} |->
            IF k = option_name THEN option.value ELSE cfg[k]]
    ELSE IF cfg[option_name] = option.value
    THEN [k \in DOMAIN cfg \ {option_name} |-> cfg[k]]
    ELSE cfg

\* One iteration of the loop of handle_set:
\*   if let Entry::Vacant(e) = config.theme.config.entry(option_name) {
\*       e.insert(config_option.option) }
entry_or_insert(cfg, option_name, option) ==
    IF option_name \notin DOMAIN cfg
    THEN [k \in DOMAIN cfg \cup {option_name} |->
            IF k = option_name THEN option.value ELSE cfg[k]]
    ELSE cfg

\* a loop that stops after the first default it inserts
RECURSIVE merge_defaults_break(_, _, _)
merge_defaults_break(cfg, schema, order) ==
    IF order = <<>> THEN cfg
    ELSE IF Head(order) \notin DOMAIN cfg
    THEN entry_or_insert(cfg, Head(order), schema[Head(order)])
    ELSE merge_defaults_break(cfg, schema, Tail(order))

\* The loop of handle_set over the schema, visited in `order`
RECURSIVE merge_defaults(_, _, _)
merge_defaults(cfg, schema, order) ==
    IF order = <<>> THEN cfg
    ELSE merge_defaults(
            entry_or_insert(cfg, Head(order), schema[Head(order)]),
            schema, Tail(order))

\* The in-memory config handle_set builds between load_config and
\* save_to_file: the name as given, then the defaults
updated_config(cfg, name, theme_info, order) ==
    [name   |-> name,
     config |-> merge_defaults(cfg.config, theme_info.config_schema, order)]

\* let is_active = current_theme.as_ref() == Some(&info.name);
\* an Option is <<>> (None) or <<x>> (Some(x))
is_active(current_theme, info) == current_theme = <<info.name>>

NoCommand ==
    [op |-> "none", name |-> <<>>, result |-> "Ok", theme |-> 0,
     order |-> <<>>, current_theme |-> <<>>, listing |-> <<>>]

\* a handle_set that stores the new name in blogr.toml before it validates
\* the theme
handle_set_name_first(name, load_ok, save_ok) ==
    LET theme == get_theme(name)
        done(result, order) ==
            [NoCommand EXCEPT !.op = "set", !.name = name, !.result = result,
                              !.theme = IF project = "Some" THEN theme ELSE 0,
                              !.order = order]
    IN  /\ before' = config
        /\ UNCHANGED <<project, templates, calls, iterated>>
        /\ IF project # "Some"
           THEN /\ last' = done("Err: not in a blogr project", <<>>)
                /\ UNCHANGED config
           ELSE IF ~load_ok
           THEN /\ last' = done("Err: load_config", <<>>)
                /\ UNCHANGED config
           ELSE IF theme = 0
           THEN /\ last' = done("Err: theme not found", <<>>)
                /\ config' = [config EXCEPT !.name = name]
           ELSE \E order \in Orders(DOMAIN get_all_themes[theme].config_schema) :
                  IF ~save_ok
                  THEN /\ last' = done("Err: save_to_file", order)
                       /\ config' = [config EXCEPT !.name = name]
                  ELSE /\ last' = done("Ok", order)
                       /\ config' = updated_config(config, name,
                                        get_all_themes[theme], order)

\* handle_set(name); load_ok and save_ok are the outcomes of
\* project.load_config() and config.save_to_file()
handle_set(name, load_ok, save_ok) ==
    LET theme == get_theme(name)
        done(result, order) ==
            [NoCommand EXCEPT !.op = "set", !.name = name, !.result = result,
                              !.theme = IF project = "Some" THEN theme ELSE 0,
                              !.order = order]
    IN  /\ before' = config
        /\ UNCHANGED <<project, templates, calls, iterated>>
        /\ IF project # "Some"
           THEN /\ last' = done("Err: not in a blogr project", <<>>)
                /\ UNCHANGED config
           ELSE IF theme = 0
           THEN /\ last' = done("Err: theme not found", <<>>)
                /\ UNCHANGED config
           ELSE IF ~load_ok
           THEN /\ last' = done("Err: load_config", <<>>)
                /\ UNCHANGED config
           ELSE \E order \in Orders(DOMAIN get_all_themes[theme].config_schema) :
                  IF ~save_ok
                  THEN /\ last' = done("Err: save_to_file", order)
                       /\ UNCHANGED config
                  ELSE /\ last' = done("Ok", order)
                       /\ config' = updated_config(config, name,
                                        get_all_themes[theme], order)

\* handle_list(); load_ok is the outcome of project.load_config()
handle_list(load_ok) ==
    LET all_themes == get_all_themes
        current_theme ==
            IF project = "Some" /\ load_ok THEN <<config.name>> ELSE <<>>
    IN  /\ before' = config
        /\ last' = [NoCommand EXCEPT
                       !.op = "list",
                       !.current_theme = current_theme,
                       !.listing =
                            [i \in 1..Len(all_themes) |->
                                [name      |-> all_themes[i].name,
                                 is_active |-> is_active(current_theme,
                                                         all_themes[i])]]]
        /\ UNCHANGED <<project, config, templates, calls, iterated>>

-----------------------------------------------------------------------------
(* The command line and the project a run starts from *)

UnknownName == <<"n","o","p","e">>
OldName     == <<"o","l","d">>

\* the <name> arguments tried: every catalog name as written, two of them
\* also in lower case and in upper case, and a name of no theme
ThemeArgs ==
    {get_all_themes[i].name : i \in DOMAIN get_all_themes}
      \cup {to_lowercase(ObsidianTheme.name), to_uppercase(ObsidianTheme.name),
            to_uppercase(MinimalRetroTheme.name), UnknownName}

\* theme.name of the blogr.toml a run starts from
InitNames == {to_lowercase(ObsidianTheme.name), OldName}

\* theme.config of the blogr.toml a run starts from: nothing; a user's own
\* value and a key of no schema; a value whose type is not the schema's
InitConfigs ==
    {EmptyMap,
     [k \in {"accent_color", "custom_css"} |->
        IF k = "accent_color" THEN String("blue") ELSE String("site.css")],
     [k \in {"font_size", "show_sidebar"} |->
        IF k = "font_size" THEN String("large") ELSE Boolean(FALSE)]}

NoProjectConfig == [name |-> OldName, config |-> EmptyMap]

Init ==
    /\ project \in {"Err", "None", "Some"}
    /\ config \in [name : InitNames, config : InitConfigs]
    /\ project # "Some" => config = NoProjectConfig
    /\ before = config
    /\ last = NoCommand
    /\ templates = <<>>
    /\ calls = <<>>
    /\ iterated = <<>>

Next ==
    \/ \E name \in ThemeArgs : \E load_ok, save_ok \in BOOLEAN :
           handle_set(name, load_ok, save_ok)
    \/ \E load_ok \in BOOLEAN : handle_list(load_ok)

Spec == Init /\ [][Next]_vars

-----------------------------------------------------------------------------
(* ThemeTemplates: new, with_template, into_iter *)

TemplateNames   == {"base.html", "index.html", "post.html"}
TemplateSources == {"{% block content %}", "{% extends base %}"}
Templates       == TemplateNames \X TemplateSources

\* a with_template that puts the new template in front
with_template_front(self, name, template) == <<<<name, template>>>> \o self

\* ThemeTemplates::new: vec![(base_template_name, base_template)]
new(base_template_name, base_template) ==
    <<<<base_template_name, base_template>>>>

\* ThemeTemplates::with_template: self.templates.push((name, template))
with_template(self, name, template) == Append(self, <<name, template>>)

\* IntoIterator::into_iter: self.templates.into_iter()
into_iter(self) == self

\* let t = ThemeTemplates::new(..): a new bundle replaces the one at hand
New(base_template_name, base_template) ==
    /\ templates' = new(base_template_name, base_template)
    /\ calls' = <<<<base_template_name, base_template>>>>
    /\ iterated' = <<>>
    /\ UNCHANGED <<project, config, before, last>>

\* t = t.with_template(..): needs a bundle that was not consumed
WithTemplate(name, template) ==
    /\ templates # <<>>
    /\ Len(templates) <= MaxTemplates
    /\ templates' = with_template(templates, name, template)
    /\ calls' = Append(calls, <<name, template>>)
    /\ UNCHANGED <<project, config, before, last, iterated>>

\* for (name, source) in t: the bundle is moved into the iterator
IntoIter ==
    /\ templates # <<>>
    /\ iterated' = into_iter(templates)
    /\ templates' = <<>>
    /\ UNCHANGED <<project, config, before, last, calls>>

TemplatesInit ==
    /\ project = "None"
    /\ config = NoProjectConfig
    /\ before = config
    /\ last = NoCommand
    /\ templates = <<>>
    /\ calls = <<>>
    /\ iterated = <<>>

TemplatesNext ==
    \/ \E t \in Templates : New(t[1], t[2])
    \/ \E t \in Templates : WithTemplate(t[1], t[2])
    \/ IntoIter

TemplatesSpec == TemplatesInit /\ [][TemplatesNext]_vars

-----------------------------------------------------------------------------
(* Vocabulary of the properties *)

\* two characters that are the same letter, whatever their case
SameLetter(a, b) ==
    \/ a = b
    \/ \E i \in DOMAIN UpperCase : {a, b} = {UpperCase[i], LowerCase[i]}

\* two strings that differ at most in letter case
SameIgnoringCase(s, t) ==
    /\ Len(s) = Len(t)
    /\ \A i \in 1..Len(s) : SameLetter(s[i], t[i])

SetDone   == last.op = "set" /\ last.result = "Ok"
SetSchema == get_all_themes[last.theme].config_schema

-----------------------------------------------------------------------------
(* Properties of blogr theme set *)

\* C1: no command changes or removes a value that theme.config holds: every
\* key present before a step is present after it with the same value.
C1_NonDestructive ==
    [][\A k \in DOMAIN config.config :
          /\ k \in DOMAIN config'.config
          /\ config'.config[k] = config.config[k]]_vars

\* a successful switch to a theme whose schema has a key the project stores
\* with a value of another type, while the project also stores a key the
\* schema does not have
C1_Witness ==
    /\ SetDone
    /\ \E k \in DOMAIN before.config \cap DOMAIN SetSchema :
          /\ before.config[k].type # SetSchema[k].value.type
          /\ config.config[k] = before.config[k]
    /\ \E k \in DOMAIN before.config : k \notin DOMAIN SetSchema

\* C2: a successful handle_set that directly follows a successful handle_set
\* resolving to the same theme leaves theme.config as it is, and with the same
\* argument leaves the whole persisted config (theme.name too) as it is.
C2_Idempotent ==
    [][(/\ SetDone
        /\ last'.op = "set" /\ last'.result = "Ok"
        /\ last'.theme = last.theme)
       => /\ config'.config = config.config
          /\ (last'.name = last.name => config' = config)]_vars

\* a theme with a schema was set on a config that the same argument had
\* already produced: nothing changed
C2_Witness ==
    /\ SetDone
    /\ DOMAIN SetSchema # {}
    /\ before.name = last.name
    /\ DOMAIN SetSchema \subseteq DOMAIN before.config
    /\ config = before

\* C3: after a successful handle_set every option of the theme's schema is a
\* key of theme.config, and a key the project did not have holds the
\* schema's default.
C3_DefaultFill ==
    SetDone =>
        \A k \in DOMAIN SetSchema :
            /\ k \in DOMAIN config.config
            /\ k \notin DOMAIN before.config
                  => config.config[k] = SetSchema[k].value

\* a successful switch that had a default to fill in and a value to keep
C3_Witness ==
    /\ SetDone
    /\ \E k \in DOMAIN SetSchema : k \notin DOMAIN before.config
    /\ \E k \in DOMAIN SetSchema : k \in DOMAIN before.config

\* C4: handle_set with a name of no catalog theme fails with "not found" (in
\* a project) and leaves blogr.toml as it was; every handle_set either leaves
\* blogr.toml as it was or, returning Ok, has written the given name together
\* with every stored value and every missing default.
C4_Atomic ==
    last.op = "set" =>
        LET unknown == \A i \in DOMAIN get_all_themes :
                          ~SameIgnoringCase(get_all_themes[i].name, last.name)
        IN  /\ unknown /\ project = "Some"
                  => last.result = "Err: theme not found"
            /\ unknown => last.result # "Ok"
            /\ last.result # "Ok" => config = before
            /\ last.result = "Ok" =>
                  /\ config.name = last.name
                  /\ DOMAIN config.config =
                        DOMAIN before.config \cup DOMAIN SetSchema
                  /\ \A k \in DOMAIN config.config :
                        config.config[k] =
                            IF k \in DOMAIN before.config
                            THEN before.config[k]
                            ELSE SetSchema[k].value

\* an unknown name was refused in a project
C4_Witness ==
    /\ last.op = "set"
    /\ project = "Some"
    /\ last.name = UnknownName
    /\ last.result = "Err: theme not found"
    /\ config = before

\* C9: the config a successful handle_set persists is the one the loop
\* produces in every iteration order of the schema.
C9_OrderIndependent ==
    SetDone =>
        \A order \in Orders(DOMAIN SetSchema) :
            config.config = merge_defaults(before.config, SetSchema, order)

\* a successful switch whose schema had at least two defaults to fill in
C9_Witness ==
    /\ SetDone
    /\ Cardinality(DOMAIN SetSchema \ DOMAIN before.config) >= 2

-----------------------------------------------------------------------------
(* Properties of the catalog *)

\* C5: get_theme returns the first theme, in get_all_themes order, whose
\* name is the argument up to letter case, None when there is none; names
\* that differ only in letter case resolve alike.
C5_CaseInsensitiveFirst ==
    (last.op = "set" /\ project = "Some") =>
        LET hit(i) == SameIgnoringCase(get_all_themes[i].name, last.name)
        IN  /\ last.theme = 0 <=> \A i \in DOMAIN get_all_themes : ~hit(i)
            /\ last.theme # 0 =>
                  /\ hit(last.theme)
                  /\ \A j \in 1..(last.theme - 1) : ~hit(j)
            /\ \A other \in ThemeArgs :
                  SameIgnoringCase(other, last.name)
                      => get_theme(other) = last.theme

\* a theme was resolved from an argument written in another case
C5_Witness ==
    /\ last.op = "set"
    /\ last.theme # 0
    /\ last.name # get_all_themes[last.theme].name

-----------------------------------------------------------------------------
(* Properties of blogr theme list *)

\* C8: handle_list marks a theme active exactly when its name is the
\* project's theme.name up to letter case, and none without a loaded project.
C8_ActiveIgnoringCase ==
    last.op = "list" =>
        \A i \in DOMAIN last.listing :
            last.listing[i].is_active <=>
                /\ last.current_theme # <<>>
                /\ SameIgnoringCase(last.listing[i].name, last.current_theme[1])

\* C10: a handle_list that directly follows a successful handle_set, and
\* loads the project's config, marks the theme that was set and no other.
C10_SetThenList ==
    [][(/\ SetDone
        /\ last'.op = "list"
        /\ last'.current_theme # <<>>)
       => \A i \in DOMAIN last'.listing :
             last'.listing[i].is_active <=> i = last.theme]_vars

-----------------------------------------------------------------------------
(* Properties of ThemeTemplates *)

\* C7: a bundle holds the base template first and then the added templates
\* in the order of the with_template calls, and iteration yields them so.
C7_BaseFirst ==
    /\ templates # <<>> =>
          /\ templates[1] = calls[1]
          /\ templates = calls
    /\ iterated # <<>> =>
          /\ iterated[1] = calls[1]
          /\ iterated = calls

\* a bundle with two added templates, different from the base, was iterated
C7_Witness ==
    /\ Len(iterated) >= 3
    /\ iterated[2] # iterated[1]
    /\ iterated[3] # iterated[2]
    /\ iterated[3] # iterated[1]

====
